---- MODULE Spec2Model ----
(***************************************************************************)
(* A model of process_schematics.py: the per-file conversion pipeline      *)
(* (process_schematic) and the command-line driver (__main__).             *)
(*                                                                         *)
(* File names and paths are sequences of one-character strings, so that    *)
(* the string operations of the script (count, split, splitext, endswith,  *)
(* startswith) are computed as Python computes them.  The filesystem is a  *)
(* function from paths to entries; every file carries the name of the      *)
(* input its data comes from and the tools that data has gone through.     *)
(***************************************************************************)
EXTENDS Integers, Sequences, FiniteSets, TLC

VARIABLES
    argv,           \* sys.argv
    use_libname,    \* the flag parsed at line 97
    missing,        \* external tools that are not installed
    fs,             \* the filesystem: path -> entry
    orig,           \* the filesystem when the script started
    listing,        \* the result of os.listdir() at line 115
    idx,            \* position of the batch loop in listing
    pc,             \* position of the script
    filename,       \* argument of process_schematic
    pdf_name,       \* local of process_schematic
    temp_filename,  \* local of process_schematic
    exc,            \* the exception in flight
    stages,         \* the external tools run for the current file, in order
    written,        \* paths under pdf/ written while processing the current file
    seen,           \* per batch iteration: the entry and whether it passed the filter
    handed,         \* the arguments process_schematic was called with
    results,        \* one record per returned call of process_schematic
    out,            \* what the script printed
    run,            \* the number of the run of the script in progress
    runs,           \* how many times the script is run in the directory
    firstPdfs,      \* the PDF files under pdf/ when the first run had ended
    memo            \* how each tool behaved on each input, when there is a second run

vars == <<argv, use_libname, missing, fs, orig, listing, idx, pc, filename,
          pdf_name, temp_filename, exc, stages, written, seen, handed, results, out,
          run, runs, firstPdfs, memo>>

----------------------------------------------------------------------------
(* Bounds of the model.                                                    *)

\* the number of entries of the working directory when the script starts
MaxEntries == 2

\* the longest file name the name derivation is tried on
MaxLen == 4

----------------------------------------------------------------------------
(* Strings, as Python computes on them.                                    *)

\* str.count(c)
Count(s, c) == Cardinality({i \in DOMAIN s : s[i] = c})

\* str.split(c): the segments between the occurrences of c
RECURSIVE Split(_, _)
Split(s, c) ==
    IF \A i \in DOMAIN s : s[i] # c
    THEN <<s>>
    ELSE LET k == CHOOSE i \in DOMAIN s : s[i] = c /\ \A j \in 1..(i-1) : s[j] # c
         IN  <<SubSeq(s, 1, k-1)>> \o Split(SubSeq(s, k+1, Len(s)), c)

\* str.rfind(c), shifted by one: the last index of c, 0 when c does not occur
RFind(s, c) ==
    IF \E i \in DOMAIN s : s[i] = c
    THEN CHOOSE i \in DOMAIN s : s[i] = c /\ \A j \in (i+1)..Len(s) : s[j] # c
    ELSE 0

\* str.endswith(suf) and str.startswith(pre)
EndsWith(s, suf) ==
    /\ Len(s) >= Len(suf)
    /\ SubSeq(s, Len(s) - Len(suf) + 1, Len(s)) = suf

StartsWith(s, pre) ==
    /\ Len(s) >= Len(pre)
    /\ SubSeq(s, 1, Len(pre)) = pre

\* The scan of os.path.splitext over the leading dots of the last component:
\* TRUE when a character other than "." stands between position i and the dot.
RECURSIVE HasNonDot(_, _, _)
HasNonDot(p, i, dotIndex) ==
    IF i >= dotIndex THEN FALSE
    ELSE IF p[i] # "." THEN TRUE
    ELSE HasNonDot(p, i + 1, dotIndex)

\* os.path.splitext(p)[0]
SplitExtRoot(p) ==
    LET sepIndex == RFind(p, "/")
        dotIndex == RFind(p, ".")
    IN  IF dotIndex > sepIndex /\ HasNonDot(p, sepIndex + 1, dotIndex)
        THEN SubSeq(p, 1, dotIndex - 1)
        ELSE p

----------------------------------------------------------------------------
(* The names the script uses.                                              *)

S_tempfile == <<"t", "e", "m", "p", "f", "i", "l", "e">>
S_temp == <<"t", "e", "m", "p">>
S_pdf == <<"p", "d", "f">>
Ext_eps == <<".", "e", "p", "s">>
Ext_py == <<".", "p", "y">>
Ext_pdf == <<".", "p", "d", "f">>
Ext_swp == <<".", "s", "w", "p">>
S_tempfile_eps == S_tempfile \o Ext_eps
Flag == <<"-", "u", "s", "e", "l", "i", "b", "n", "a", "m", "e">>
Prog == <<"p", "r", "o", "c", "e", "s", "s", "_", "s", "c", "h", "e", "m", "a", "t", "i", "c", "s", ".", "p", "y">>

\* the working files of the pipeline
WorkFiles == {S_tempfile, S_tempfile_eps, S_temp}

\* the order of the stages
StageOrder == <<"eps2eps", "epstool", "mv", "epstopdf">>

Tools == {"eps2eps", "epstool", "mv", "epstopdf"}

\* the slip of taking the first segment (name_parts[0])
DeriveName_FirstSegment(name) ==
    IF Count(name, ",") >= 2
    THEN Split(name, ",")[1]
    ELSE SplitExtRoot(name)

\* the name the output is given (lines 44-49)
DeriveName(name) ==
    IF Count(name, ",") >= 2
    THEN Split(name, ",")[2]
    ELSE SplitExtRoot(name)

\* the second argument of epstopdf (line 76)
PdfPath(name) == S_pdf \o <<"/">> \o name \o Ext_pdf

\* the name test of lines 106 and 116, without os.path.isfile
NameAllowed(name) ==
    /\ ~ (EndsWith(name, Ext_py) \/ EndsWith(name, Ext_pdf) \/ EndsWith(name, Ext_swp))
    /\ ~ StartsWith(name, <<".">>)
    /\ name # S_tempfile

----------------------------------------------------------------------------
(* The filesystem.                                                         *)

\* entries of the working directory the model can start with
F_a == <<"a">> \o Ext_eps
F_c == <<"x", ",", "a", ",", "y">>
F_py == <<"n">> \o Ext_py
F_dot == <<".", "h">>
D_d == <<"d">>
\* a file of the subdirectory d, and a.eps named through the current directory
F_sub == D_d \o <<"/">> \o F_dot
F_rel == <<".", "/">> \o F_a

CwdNames == {F_a, F_c, F_py, F_dot, D_d, S_temp, S_tempfile, S_tempfile_eps, S_pdf}

\* every path the model keeps an entry for
Paths ==
    CwdNames \cup {F_sub} \cup {PdfPath(DeriveName(f)) : f \in CwdNames \cup {F_sub}}

NoEntry == [kind |-> "none", origin |-> <<>>, stage |-> <<>>, whole |-> TRUE]
DirEntry == [kind |-> "dir", origin |-> <<>>, stage |-> <<>>, whole |-> TRUE]
\* a regular file: the input its data comes from, the tools that data has gone
\* through, in order, and whether the last writer finished writing it
FileEntry(origin, stage, whole) ==
    [kind |-> "file", origin |-> origin, stage |-> stage, whole |-> whole]

\* a path with its leading "./" removed
RECURSIVE Resolve(_)
Resolve(p) ==
    IF StartsWith(p, <<".", "/">>) THEN Resolve(SubSeq(p, 3, Len(p))) ELSE p

EntryOf(f, p) == IF Resolve(p) \in DOMAIN f THEN f[Resolve(p)] ELSE NoEntry

\* os.path.isfile
IsFileIn(f, p) == EntryOf(f, p).kind = "file"
IsDirIn(f, p) == EntryOf(f, p).kind = "dir"
ExistsIn(f, p) == EntryOf(f, p).kind # "none"

\* the directory a path lies in; <<>> is the working directory
Parent(p) ==
    LET r == Resolve(p)
    IN  IF RFind(r, "/") = 0 THEN <<>> ELSE SubSeq(r, 1, RFind(r, "/") - 1)

\* a file can be created or overwritten at p
CanWrite(f, p) ==
    /\ Resolve(p) \in DOMAIN f
    /\ ~ IsDirIn(f, p)
    /\ (Parent(p) = <<>> \/ IsDirIn(f, Parent(p)))

PutFile(f, p, e) == [f EXCEPT ![Resolve(p)] = e]
DelFile(f, p) == [f EXCEPT ![Resolve(p)] = NoEntry]

\* os.listdir(): the names of the working directory, in any order
CwdEntries(f) == {p \in DOMAIN f : RFind(p, "/") = 0 /\ f[p].kind # "none"}

Perms(S) ==
    {s \in [1..Cardinality(S) -> S] : \A i, j \in DOMAIN s : i # j => s[i] # s[j]}

----------------------------------------------------------------------------
(* Exceptions.                                                             *)

\* an optional bytes value: None, or the bytes
None == [isNone |-> TRUE, bytes |-> <<>>]
Bytes(b) == [isNone |-> FALSE, bytes |-> b]
\* Python's truth value of an optional bytes value
Truthy(v) == ~ v.isNone /\ v.bytes # <<>>

NoExc ==
    [type |-> "none", returncode |-> 0, cmd |-> "", output |-> None, stderr |-> None]

\* subprocess.CalledProcessError(returncode, cmd, output=None, stderr=None),
\* called with three positional arguments as at lines 59, 66, 72 and 79
CalledProcessError(returncode, cmd, output) ==
    [type |-> "CalledProcessError", returncode |-> returncode, cmd |-> cmd,
     output |-> output, stderr |-> None]

\* the exceptions of the operating system, by class; cmd is what str(e) names
OSError(type, what) ==
    [type |-> type, returncode |-> 0, cmd |-> what, output |-> None, stderr |-> None]

\* bytes.decode(): UTF-8, strict; here one byte per character below 128
DecodeFails(b) == \E i \in DOMAIN b : b[i] >= 128
Decode(b) == [i \in DOMAIN b |-> IF b[i] = 69 THEN "E" ELSE "?"]

\* what a tool can leave on its standard error when it fails
StderrValues == {<<>>, <<69>>, <<255>>}

\* a line the script prints: its fixed text, and the file, the command and the
\* text it is filled with
Msg(msg, file, cmd, text) == [msg |-> msg, file |-> file, cmd |-> cmd, text |-> text]

----------------------------------------------------------------------------
(* The start of the script.                                                *)

SingleArgs == {F_a, F_rel, F_c, S_temp, S_tempfile, F_py, F_dot, D_d, F_sub}

ArgLists ==
    {<<Prog>>, <<Prog, Flag>>, <<Prog, Flag, Flag>>}
        \cup {<<Prog, f>> : f \in SingleArgs}
        \cup {<<Prog, Flag, f>> : f \in SingleArgs}
        \cup {<<Prog, f, Flag>> : f \in SingleArgs}

\* the working directory the script is started in
InitialFs(chosen, pdfIsFile) ==
    [p \in Paths |->
        IF p \in chosen
        THEN IF p = D_d \/ (p = S_pdf /\ ~ pdfIsFile)
             THEN DirEntry
             ELSE FileEntry(p, <<>>, TRUE)
        ELSE IF p = F_sub /\ D_d \in chosen
             THEN FileEntry(p, <<>>, TRUE)
             ELSE NoEntry]

\* the script is started with one of the argument lists `args`, in a directory
\* of at most `most` entries, in which it is to be run n times
InitWith(args, n, most) ==
    /\ argv \in args
    /\ run = 1
    /\ runs = n
    /\ firstPdfs = {}
    /\ memo = {}
    /\ use_libname = FALSE
    /\ missing \in {{}} \cup {{t} : t \in Tools}
    /\ \E chosen \in SUBSET CwdNames :
         /\ Cardinality(chosen) <= most
         /\ \E pdfIsFile \in (IF S_pdf \in chosen THEN BOOLEAN ELSE {FALSE}) :
              fs = InitialFs(chosen, pdfIsFile)
    /\ orig = fs
    /\ listing = <<>>
    /\ idx = 0
    /\ pc = "start"
    /\ filename = <<>>
    /\ pdf_name = <<>>
    /\ temp_filename = <<>>
    /\ exc = NoExc
    /\ stages = <<>>
    /\ written = {}
    /\ seen = <<>>
    /\ handed = <<>>
    /\ results = <<>>
    /\ out = <<>>

Init == InitWith(ArgLists, 1, MaxEntries)

\* list.remove(x): the list without its first x
RemoveFirst(s, x) ==
    LET k == CHOOSE i \in DOMAIN s : s[i] = x /\ \A j \in 1..(i-1) : s[j] # x
    IN  SubSeq(s, 1, k - 1) \o SubSeq(s, k + 1, Len(s))

\* lines 97-100
ParseArgs ==
    /\ pc = "start"
    /\ use_libname' = (\E i \in DOMAIN argv : argv[i] = Flag)
    /\ argv' = IF use_libname' THEN RemoveFirst(argv, Flag) ELSE argv
    /\ pc' = "main"
    /\ UNCHANGED <<missing, fs, orig, listing, idx, filename, pdf_name,
                   temp_filename, exc, stages, written, seen, handed, results, out>>
    /\ UNCHANGED <<run, runs, firstPdfs, memo>>

\* the test of lines 106 and 116
Eligible(f, name) == IsFileIn(f, name) /\ NameAllowed(name)

\* the call of process_schematic (lines 107 and 117)
Call(name) ==
    /\ filename' = name
    /\ handed' = Append(handed, name)
    /\ pdf_name' = <<>>
    /\ temp_filename' = <<>>
    /\ stages' = <<>>
    /\ written' = {}
    /\ exc' = NoExc
    /\ pc' = "copy"

\* lines 103-107: one file, named on the command line
SingleCall ==
    /\ pc = "main"
    /\ Len(argv) > 1
    /\ Eligible(fs, argv[2])
    /\ Call(argv[2])
    /\ UNCHANGED <<argv, use_libname, missing, fs, orig, listing, idx, seen,
                   results, out>>
    /\ UNCHANGED <<run, runs, firstPdfs, memo>>

\* lines 108-112
SingleReject ==
    /\ pc = "main"
    /\ Len(argv) > 1
    /\ ~ Eligible(fs, argv[2])
    /\ out' = Append(out, IF ~ IsFileIn(fs, argv[2])
                          THEN Msg("Error: File not found.", argv[2], "", <<>>)
                          ELSE Msg("Error: File is excluded.", argv[2], "", <<>>))
    /\ pc' = "done"
    /\ UNCHANGED <<argv, use_libname, missing, fs, orig, listing, idx, filename,
                   pdf_name, temp_filename, exc, stages, written, seen, handed,
                   results>>
    /\ UNCHANGED <<run, runs, firstPdfs, memo>>

\* lines 113-115: os.listdir() is evaluated once, before the loop
BatchStart ==
    /\ pc = "main"
    /\ Len(argv) <= 1
    /\ listing' \in Perms(CwdEntries(fs))
    /\ idx' = 1
    /\ pc' = "loop"
    /\ UNCHANGED <<argv, use_libname, missing, fs, orig, filename, pdf_name,
                   temp_filename, exc, stages, written, seen, handed, results, out>>
    /\ UNCHANGED <<run, runs, firstPdfs, memo>>

\* lines 115-117: the next entry passes the test and is converted
BatchCall ==
    /\ pc = "loop"
    /\ idx <= Len(listing)
    /\ Eligible(fs, listing[idx])
    /\ Call(listing[idx])
    /\ seen' = Append(seen, <<listing[idx], TRUE>>)
    /\ UNCHANGED <<argv, use_libname, missing, fs, orig, listing, idx, results, out>>
    /\ UNCHANGED <<run, runs, firstPdfs, memo>>

\* lines 115-116: the next entry fails the test and is passed over
BatchSkip ==
    /\ pc = "loop"
    /\ idx <= Len(listing)
    /\ ~ Eligible(fs, listing[idx])
    /\ seen' = Append(seen, <<listing[idx], FALSE>>)
    /\ idx' = idx + 1
    /\ UNCHANGED <<argv, use_libname, missing, fs, orig, listing, pc, filename,
                   pdf_name, temp_filename, exc, stages, written, handed, results, out>>
    /\ UNCHANGED <<run, runs, firstPdfs, memo>>

\* line 118: os.remove("tempfile") after the loop; nothing catches its error
BatchRemove ==
    /\ pc = "loop"
    /\ idx > Len(listing)
    /\ IF IsFileIn(fs, S_tempfile)
       THEN /\ fs' = DelFile(fs, S_tempfile)
            /\ pc' = "done"
            /\ exc' = NoExc
       ELSE /\ fs' = fs
            /\ pc' = "crashed"
            /\ exc' = OSError(IF IsDirIn(fs, S_tempfile)
                              THEN "IsADirectoryError" ELSE "FileNotFoundError",
                              "tempfile")
    /\ UNCHANGED <<argv, use_libname, missing, orig, listing, idx, filename,
                   pdf_name, temp_filename, stages, written, seen, handed, results, out>>
    /\ UNCHANGED <<run, runs, firstPdfs, memo>>

----------------------------------------------------------------------------
(* process_schematic.                                                      *)

\* The runs of an external tool on the filesystem f, given the file `input`
\* (Popen and communicate, lines 56-57, 63-64, 69-70, 76-77).  A tool that is
\* not installed is not found.  A tool that exits with status zero has produced
\* `done`; one that fails leaves the filesystem alone or leaves one of
\* `partial`, and leaves any of StderrValues on its standard error.  A tool
\* given an input it was given before behaves as it did then, if it can.
Popen(f, tool, input, done, partial) ==
    LET all ==
            {[found |-> TRUE, returncode |-> 0, stderr |-> <<>>, fs |-> g,
              how |-> "done", input |-> input] : g \in done}
            \cup {[found |-> TRUE, returncode |-> 1, stderr |-> e, fs |-> f,
                   how |-> "none", input |-> input] : e \in StderrValues}
            \cup {[found |-> TRUE, returncode |-> 1, stderr |-> e, fs |-> g,
                   how |-> "partial", input |-> input] : e \in StderrValues, g \in partial}
        same ==
            {r \in all : \E m \in memo :
                /\ m.tool = tool /\ m.input = input
                /\ m.returncode = r.returncode /\ m.how = r.how /\ m.stderr = r.stderr}
    IN  IF tool \in missing
        THEN {[found |-> FALSE, returncode |-> 0, stderr |-> <<>>, fs |-> f,
               how |-> "none", input |-> input]}
        ELSE IF same # {} THEN same ELSE all

\* a tool that reads src and writes dst
Filter(f, tool, src, dst) ==
    LET can == IsFileIn(f, src) /\ CanWrite(f, dst)
        data == EntryOf(f, src)
    IN  Popen(f, tool, data,
              IF can
              THEN {PutFile(f, dst, FileEntry(data.origin, Append(data.stage, tool), TRUE))}
              ELSE {},
              IF can
              THEN {PutFile(f, dst, FileEntry(data.origin, Append(data.stage, tool), FALSE))}
              ELSE {})

\* mv src dst
Move(f, src, dst) ==
    LET can == IsFileIn(f, src) /\ CanWrite(f, dst)
    IN  Popen(f, "mv", EntryOf(f, src),
              IF can THEN {PutFile(DelFile(f, src), dst, EntryOf(f, src))} ELSE {},
              {})

\* a run of a tool is remembered when the script is run again
Remember(tool, r) ==
    IF runs > 1 /\ r.found
    THEN memo \cup {[tool |-> tool, input |-> r.input, returncode |-> r.returncode,
                     how |-> r.how, stderr |-> r.stderr]}
    ELSE memo

\* the slip of not testing the exit status of a tool
AfterRun_StatusIgnored(tool, r, next) ==
    /\ stages' = Append(stages, [tool |-> tool,
                                 status |-> IF ~ r.found THEN "missing"
                                            ELSE IF r.returncode # 0 THEN "failed"
                                            ELSE "ok",
                                 stderr |-> r.stderr])
    /\ memo' = Remember(tool, r)
    /\ IF ~ r.found
       THEN pc' = "except" /\ exc' = OSError("FileNotFoundError", tool)
       ELSE pc' = next /\ exc' = NoExc

\* what follows a run r of tool: the next stage, or the exception raised
\* (FileNotFoundError by Popen, CalledProcessError at lines 58-59, 65-66, 71-72, 78-79)
AfterRun(tool, r, next) ==
    /\ stages' = Append(stages, [tool |-> tool,
                                 status |-> IF ~ r.found THEN "missing"
                                            ELSE IF r.returncode # 0 THEN "failed"
                                            ELSE "ok",
                                 stderr |-> r.stderr])
    /\ memo' = Remember(tool, r)
    /\ IF ~ r.found
       THEN pc' = "except" /\ exc' = OSError("FileNotFoundError", tool)
       ELSE IF r.returncode # 0
            THEN pc' = "except" /\ exc' = CalledProcessError(r.returncode, tool, Bytes(r.stderr))
            ELSE pc' = next /\ exc' = NoExc

\* the slip of keeping a tempfile that is already there
PS_Copy_KeepsOld ==
    /\ pc = "copy"
    /\ out' = Append(out, Msg("Processing", filename, "", <<>>))
    /\ pdf_name' = DeriveName(filename)
    /\ temp_filename' = S_tempfile
    /\ IF Resolve(filename) = Resolve(S_tempfile) /\ ExistsIn(fs, filename)
       THEN pc' = "except" /\ exc' = OSError("SameFileError", "tempfile") /\ fs' = fs
       ELSE IF ~ ExistsIn(fs, filename)
       THEN pc' = "except" /\ exc' = OSError("FileNotFoundError", "filename") /\ fs' = fs
       ELSE IF IsDirIn(fs, filename)
       THEN pc' = "except" /\ exc' = OSError("IsADirectoryError", "filename") /\ fs' = fs
       ELSE IF IsDirIn(fs, S_tempfile)
       THEN pc' = "except" /\ exc' = OSError("IsADirectoryError", "tempfile") /\ fs' = fs
       ELSE /\ pc' = "eps2eps"
            /\ exc' = NoExc
            /\ fs' = IF IsFileIn(fs, S_tempfile)
                     THEN fs
                     ELSE PutFile(fs, S_tempfile, EntryOf(fs, filename))
    /\ UNCHANGED <<argv, use_libname, missing, orig, listing, idx, filename,
                   stages, written, seen, handed, results>>
    /\ UNCHANGED <<run, runs, firstPdfs, memo>>

\* lines 41-53: the name of the output, and shutil.copyfile(filename, "tempfile")
PS_Copy ==
    /\ pc = "copy"
    /\ out' = Append(out, Msg("Processing", filename, "", <<>>))
    /\ pdf_name' = DeriveName(filename)
    /\ temp_filename' = S_tempfile
    /\ IF Resolve(filename) = Resolve(S_tempfile) /\ ExistsIn(fs, filename)
       THEN pc' = "except" /\ exc' = OSError("SameFileError", "tempfile") /\ fs' = fs
       ELSE IF ~ ExistsIn(fs, filename)
       THEN pc' = "except" /\ exc' = OSError("FileNotFoundError", "filename") /\ fs' = fs
       ELSE IF IsDirIn(fs, filename)
       THEN pc' = "except" /\ exc' = OSError("IsADirectoryError", "filename") /\ fs' = fs
       ELSE IF IsDirIn(fs, S_tempfile)
       THEN pc' = "except" /\ exc' = OSError("IsADirectoryError", "tempfile") /\ fs' = fs
       ELSE /\ pc' = "eps2eps"
            /\ exc' = NoExc
            /\ fs' = PutFile(fs, S_tempfile, EntryOf(fs, filename))
    /\ UNCHANGED <<argv, use_libname, missing, orig, listing, idx, filename,
                   stages, written, seen, handed, results>>
    /\ UNCHANGED <<run, runs, firstPdfs, memo>>

\* lines 55-60: eps2eps tempfile tempfile.eps
PS_Eps2eps ==
    /\ pc = "eps2eps"
    /\ \E r \in Filter(fs, "eps2eps", temp_filename, temp_filename \o Ext_eps) :
         /\ fs' = r.fs
         /\ AfterRun("eps2eps", r, "epstool")
         /\ temp_filename' = IF r.found /\ r.returncode = 0
                             THEN temp_filename \o Ext_eps
                             ELSE temp_filename
    /\ UNCHANGED <<argv, use_libname, missing, orig, listing, idx, filename,
                   pdf_name, written, seen, handed, results, out>>
    /\ UNCHANGED <<run, runs, firstPdfs>>

\* lines 62-66: epstool --bbox --copy tempfile.eps temp
PS_Epstool ==
    /\ pc = "epstool"
    /\ \E r \in Filter(fs, "epstool", temp_filename, S_temp) :
         /\ fs' = r.fs
         /\ AfterRun("epstool", r, "mv")
    /\ UNCHANGED <<argv, use_libname, missing, orig, listing, idx, filename,
                   pdf_name, temp_filename, written, seen, handed, results, out>>
    /\ UNCHANGED <<run, runs, firstPdfs>>

\* lines 68-72: mv temp tempfile.eps
PS_Mv ==
    /\ pc = "mv"
    /\ \E r \in Move(fs, S_temp, temp_filename) :
         /\ fs' = r.fs
         /\ AfterRun("mv", r, "epstopdf")
    /\ UNCHANGED <<argv, use_libname, missing, orig, listing, idx, filename,
                   pdf_name, temp_filename, written, seen, handed, results, out>>
    /\ UNCHANGED <<run, runs, firstPdfs>>

\* line 75: os.makedirs("pdf", exist_ok=True) cannot make the directory
MakedirsFails(f) == IsFileIn(f, S_pdf)

\* the filesystem after line 75
Makedirs(f) == IF ExistsIn(f, S_pdf) THEN f ELSE PutFile(f, S_pdf, DirEntry)

\* lines 74-79: the pdf directory, and epstopdf tempfile.eps dst
EpstopdfTo(dst) ==
    /\ pc = "epstopdf"
    /\ IF MakedirsFails(fs)
       THEN /\ pc' = "except"
            /\ exc' = OSError("FileExistsError", "pdf")
            /\ UNCHANGED <<fs, stages, written, memo>>
       ELSE \E r \in Filter(Makedirs(fs), "epstopdf", temp_filename, dst) :
              /\ fs' = r.fs
              /\ written' = IF r.fs # Makedirs(fs) THEN written \cup {dst} ELSE written
              /\ AfterRun("epstopdf", r, "remove")
    /\ UNCHANGED <<argv, use_libname, missing, orig, listing, idx, filename,
                   pdf_name, temp_filename, seen, handed, results, out>>
    /\ UNCHANGED <<run, runs, firstPdfs>>

\* the slip of naming the output after the working file
PS_Epstopdf_TempName == EpstopdfTo(PdfPath(SplitExtRoot(temp_filename)))

\* line 76: the destination is pdf/<pdf_name>.pdf
PS_Epstopdf == EpstopdfTo(PdfPath(pdf_name))

\* the end of a call: its record, and the return to the caller
Finish(outcome) ==
    /\ results' = Append(results, [file |-> filename, outcome |-> outcome,
                                   written |-> written])
    /\ pc' = "return"
    /\ exc' = NoExc

\* lines 81-83: os.remove(temp_filename)
PS_Remove ==
    /\ pc = "remove"
    /\ IF IsFileIn(fs, temp_filename)
       THEN /\ fs' = DelFile(fs, temp_filename)
            /\ out' = Append(out, Msg("Processed", filename, "", <<>>))
            /\ Finish("ok")
       ELSE /\ pc' = "except"
            /\ exc' = OSError(IF IsDirIn(fs, temp_filename)
                              THEN "IsADirectoryError" ELSE "FileNotFoundError",
                              "temp_filename")
            /\ UNCHANGED <<fs, out, results>>
    /\ UNCHANGED <<argv, use_libname, missing, orig, listing, idx, filename,
                   pdf_name, temp_filename, stages, written, seen, handed>>
    /\ UNCHANGED <<run, runs, firstPdfs, memo>>

\* lines 85-90: except subprocess.CalledProcessError
PS_ExceptCalledProcessError ==
    /\ pc = "except"
    /\ exc.type = "CalledProcessError"
    /\ IF Truthy(exc.stderr)
       THEN IF DecodeFails(exc.stderr.bytes)
            THEN \* UnicodeDecodeError leaves the handler and the function
                 /\ out' = Append(out, Msg("Error processing", filename, exc.cmd, <<>>))
                 /\ pc' = "crashed"
                 /\ exc' = OSError("UnicodeDecodeError", "stderr")
                 /\ UNCHANGED results
            ELSE /\ out' = out \o <<Msg("Error processing", filename, exc.cmd, <<>>),
                                    Msg("Standard Error:", filename, exc.cmd,
                                        Decode(exc.stderr.bytes))>>
                 /\ Finish("tool failed")
       ELSE /\ out' = out \o <<Msg("Error processing", filename, exc.cmd, <<>>),
                               Msg("Standard error was empty.", filename, exc.cmd, <<>>)>>
            /\ Finish("tool failed")
    /\ UNCHANGED <<argv, use_libname, missing, fs, orig, listing, idx, filename,
                   pdf_name, temp_filename, stages, written, seen, handed>>
    /\ UNCHANGED <<run, runs, firstPdfs, memo>>

\* lines 91-92: except FileNotFoundError
PS_ExceptFileNotFoundError ==
    /\ pc = "except"
    /\ exc.type = "FileNotFoundError"
    /\ out' = Append(out, Msg("Error: Required tool not found", filename, exc.cmd, <<>>))
    /\ Finish("tool missing")
    /\ UNCHANGED <<argv, use_libname, missing, fs, orig, listing, idx, filename,
                   pdf_name, temp_filename, stages, written, seen, handed>>
    /\ UNCHANGED <<run, runs, firstPdfs, memo>>

\* the slip of leaving the other exceptions uncaught
PS_ExceptException_Uncaught ==
    /\ pc = "except"
    /\ exc.type \notin {"CalledProcessError", "FileNotFoundError"}
    /\ pc' = "crashed"
    /\ UNCHANGED <<argv, use_libname, missing, fs, orig, listing, idx, filename,
                   pdf_name, temp_filename, exc, stages, written, seen, handed,
                   results, out>>
    /\ UNCHANGED <<run, runs, firstPdfs, memo>>

\* lines 93-94: except Exception
PS_ExceptException ==
    /\ pc = "except"
    /\ exc.type \notin {"CalledProcessError", "FileNotFoundError"}
    /\ out' = Append(out, Msg("An unexpected error occurred", filename, exc.cmd, <<>>))
    /\ Finish("unexpected error")
    /\ UNCHANGED <<argv, use_libname, missing, fs, orig, listing, idx, filename,
                   pdf_name, temp_filename, stages, written, seen, handed>>
    /\ UNCHANGED <<run, runs, firstPdfs, memo>>

\* process_schematic returns to line 107 or to the loop of line 115
PS_Return ==
    /\ pc = "return"
    /\ IF Len(argv) > 1
       THEN pc' = "done" /\ idx' = idx
       ELSE pc' = "loop" /\ idx' = idx + 1
    /\ stages' = <<>>
    /\ written' = {}
    /\ UNCHANGED <<argv, use_libname, missing, fs, orig, listing, filename,
                   pdf_name, temp_filename, exc, seen, handed, results, out>>
    /\ UNCHANGED <<run, runs, firstPdfs, memo>>

Next ==
    \/ ParseArgs
    \/ SingleCall
    \/ SingleReject
    \/ BatchStart
    \/ BatchCall
    \/ BatchSkip
    \/ BatchRemove
    \/ PS_Copy
    \/ PS_Eps2eps
    \/ PS_Epstool
    \/ PS_Mv
    \/ PS_Epstopdf
    \/ PS_Remove
    \/ PS_ExceptCalledProcessError
    \/ PS_ExceptFileNotFoundError
    \/ PS_ExceptException
    \/ PS_Return

Spec == Init /\ [][Next]_vars

\* the script keeps running: the interpreter takes the next step whenever there is one
FairSpec == Spec /\ WF_vars(Next)

----------------------------------------------------------------------------
(* The script run twice in one directory.                                  *)

\* the regular files under pdf/
PdfFiles(f) == {p \in DOMAIN f : StartsWith(p, S_pdf \o <<"/">>) /\ f[p].kind = "file"}

\* the script has ended and is started again, with the same arguments, in the
\* directory as the first run left it
Rerun ==
    /\ pc \in {"done", "crashed"}
    /\ run < runs
    /\ run' = run + 1
    /\ firstPdfs' = PdfFiles(fs)
    /\ orig' = fs
    /\ pc' = "start"
    /\ use_libname' = FALSE
    /\ listing' = <<>>
    /\ idx' = 0
    /\ filename' = <<>>
    /\ pdf_name' = <<>>
    /\ temp_filename' = <<>>
    /\ exc' = NoExc
    /\ stages' = <<>>
    /\ written' = {}
    /\ seen' = <<>>
    /\ handed' = <<>>
    /\ results' = <<>>
    /\ out' = <<>>
    /\ UNCHANGED <<argv, missing, fs, runs, memo>>

\* the script run twice in a directory of one entry, in batch mode or on one
\* argument
InitTwice == InitWith({<<Prog>>, <<Prog, F_a>>, <<Prog, D_d>>}, 2, 1)

NextTwice == Next \/ Rerun

SpecTwice == InitTwice /\ [][NextTwice]_vars

----------------------------------------------------------------------------
(* The script in a directory another process removes files from.           *)

\* between os.path.isfile (lines 106, 116) and shutil.copyfile (line 53) the
\* input is removed by another process; or the working file is, before
\* os.remove (line 81)
EnvVanish ==
    /\ \/ pc = "copy" /\ IsFileIn(fs, filename) /\ fs' = DelFile(fs, filename)
       \/ pc = "remove" /\ IsFileIn(fs, temp_filename) /\ fs' = DelFile(fs, temp_filename)
    /\ UNCHANGED <<argv, use_libname, missing, orig, listing, idx, pc, filename,
                   pdf_name, temp_filename, exc, stages, written, seen, handed,
                   results, out>>
    /\ UNCHANGED <<run, runs, firstPdfs, memo>>

NextEnv == Next \/ EnvVanish

SpecEnv == Init /\ [][NextEnv]_vars

----------------------------------------------------------------------------
(* The name derivation on its own: every name over NameAlphabet.           *)

NameAlphabet == {"a", ",", ".", "/"}

NamesUpTo(n) == UNION {[1..k -> NameAlphabet] : k \in 0..n}

InitName ==
    /\ filename \in NamesUpTo(MaxLen)
    /\ pc = "name"
    /\ argv = <<Prog, filename>>
    /\ run = 1
    /\ runs = 1
    /\ firstPdfs = {}
    /\ memo = {}
    /\ use_libname = FALSE
    /\ missing = {}
    /\ fs = InitialFs({}, FALSE)
    /\ orig = fs
    /\ listing = <<>>
    /\ idx = 0
    /\ pdf_name = <<>>
    /\ temp_filename = <<>>
    /\ exc = NoExc
    /\ stages = <<>>
    /\ written = {}
    /\ seen = <<>>
    /\ handed = <<>>
    /\ results = <<>>
    /\ out = <<>>

\* lines 44-49 and the destination of line 76
NameStep ==
    /\ pc = "name"
    /\ pdf_name' = DeriveName(filename)
    /\ written' = {PdfPath(pdf_name')}
    /\ pc' = "named"
    /\ UNCHANGED <<argv, use_libname, missing, fs, orig, listing, idx, filename,
                   temp_filename, exc, stages, seen, handed, results, out>>
    /\ UNCHANGED <<run, runs, firstPdfs, memo>>

NextName == NameStep

SpecName == InitName /\ [][NextName]_vars

----------------------------------------------------------------------------
(* What the claims speak of.                                               *)

\* the last element of a non-empty sequence
Last(s) == s[Len(s)]

\* the script runs in batch mode (no positional argument is left)
BatchRun == pc # "start" /\ Len(argv) <= 1
SingleRun == pc # "start" /\ Len(argv) > 1

\* the script has ended, normally or by an unhandled exception
Ended == pc \in {"done", "crashed"}

\* working files in the working directory that are not the files found there
\* when the script started
WorkingFilesLeft == {w \in WorkFiles : IsFileIn(fs, w) /\ fs[w] # orig[w]}

Succeeded == {i \in DOMAIN results : results[i].outcome = "ok"}
Failed == {i \in DOMAIN results : results[i].outcome # "ok"}

\* C1: whenever the conversion of a file fails, no working file of the pipeline
\* (tempfile, tempfile.eps, temp) is left once process_schematic has returned.
C1_NoWorkingFileAfterFailure ==
    (pc = "return" /\ Last(results).outcome # "ok") => WorkingFilesLeft = {}

\* C2: after a run in which every attempted conversion succeeded, in single-file
\* or in batch mode, no working file of the pipeline is left.
C2_NoWorkingFileAfterSuccess ==
    (pc = "done" /\ results # <<>> /\ Failed = {}) => WorkingFilesLeft = {}

\* C3: a conversion never changes its input: every file handed to the pipeline
\* is there with its content unchanged when its conversion has ended and
\* afterwards, and only working files and the pdf directory are written.
C3_InputUnchanged ==
    /\ \A i \in DOMAIN results :
           EntryOf(fs, results[i].file) = EntryOf(orig, results[i].file)
    /\ \A p \in Paths :
           fs[p] # orig[p] => (p \in WorkFiles \/ p = S_pdf \/ StartsWith(p, S_pdf \o <<"/">>))

\* C4: a conversion that ends in failure has written no file under pdf/.
C4_NoPdfAfterFailure ==
    \A i \in Failed : results[i].written = {}

\* the PDF files written by the conversions that succeeded
PdfsOfSuccesses == UNION {results[i].written : i \in Succeeded}

\* C5 (as claimed): after a batch run the number of PDF files produced equals
\* the number of inputs whose conversion succeeded.
C5_OnePdfPerSuccess ==
    (BatchRun /\ Ended) => Cardinality(PdfsOfSuccesses) = Cardinality(Succeeded)

\* C5 (amended): every successful conversion writes exactly one PDF,
\* pdf/<DerivedName>.pdf, so the PDF files written by the successful conversions
\* are as many as the distinct derived names of the inputs converted.
C5_OnePdfPerDerivedName ==
    /\ \A i \in Succeeded :
           results[i].written = {S_pdf \o <<"/">> \o DeriveName(results[i].file) \o Ext_pdf}
    /\ Cardinality(PdfsOfSuccesses)
           = Cardinality({DeriveName(results[i].file) : i \in Succeeded})

\* two inputs with one derived name have both been converted in a batch
C5_Witness ==
    /\ BatchRun /\ Ended
    /\ \E i, j \in Succeeded :
           /\ results[i].file # results[j].file
           /\ DeriveName(results[i].file) = DeriveName(results[j].file)

\* the names process_schematic was called with
Handed == {handed[i] : i \in DOMAIN handed}

\* the batch loop has gone through the whole listing
LoopOver == BatchRun /\ (Ended \/ (pc = "loop" /\ idx > Len(listing)))

\* how far the batch is from the end of its loop: the entries still to visit,
\* and within an entry the steps still to take
Rank ==
    (Len(listing) + 1 - idx) * 10
      + (CASE pc = "loop" -> 9
           [] pc = "copy" -> 8
           [] pc = "eps2eps" -> 7
           [] pc = "epstool" -> 6
           [] pc = "mv" -> 5
           [] pc = "epstopdf" -> 4
           [] pc = "remove" -> 3
           [] pc = "except" -> 2
           [] pc = "return" -> 1
           [] OTHER -> 0)

\* no error has left the loop, and the loop has passed over no entry: the
\* entries visited are those of the listing, in its order, and each one that
\* was an eligible regular file when it was reached was handed to the pipeline
Isolated ==
    /\ Len(seen) <= Len(listing)
    /\ \A i \in DOMAIN seen :
           /\ seen[i][1] = listing[i]
           /\ seen[i][2] => listing[i] \in Handed
    /\ pc = "crashed" => idx > Len(listing)
    /\ LoopOver =>
           /\ Len(seen) = Len(listing)
           /\ \A i \in DOMAIN listing :
                  (/\ IsFileIn(orig, listing[i])
                   /\ NameAllowed(listing[i])
                   /\ listing[i] \notin WorkFiles) => listing[i] \in Handed

C7_StagesInOrder ==
    /\ Len(stages) <= Len(StageOrder)
    /\ \A i \in DOMAIN stages :
           /\ stages[i].tool = StageOrder[i]
           /\ i < Len(stages) => stages[i].status = "ok"
    /\ pc \in {"eps2eps", "epstool", "mv", "epstopdf", "remove"} =>
           \A i \in DOMAIN stages : stages[i].status = "ok"

\* a file whose third stage failed has returned
C7_Witness ==
    /\ pc = "return"
    /\ Len(stages) = 3
    /\ stages[3].status = "failed"

\* the positions of the commas of a name, and the smallest of a set of positions
Commas(n) == {i \in DOMAIN n : n[i] = ","}
Least(S) == CHOOSE i \in S : \A j \in S : i <= j
Greatest(S) == CHOOSE i \in S : \A j \in S : j <= i

\* the second comma-delimited segment of a name with two commas or more
SecondSegment(n) ==
    LET first == Least(Commas(n))
        second == Least(Commas(n) \ {first})
    IN  SubSeq(n, first + 1, second - 1)

\* a name without its extension: the extension starts at the last dot of the
\* last path component that has a character other than a dot before it
WithoutExtension(n) ==
    LET slashes == {i \in DOMAIN n : n[i] = "/"}
        start == IF slashes = {} THEN 1 ELSE Greatest(slashes) + 1
        dots == {i \in start..Len(n) :
                    n[i] = "." /\ \E j \in start..(i-1) : n[j] # "."}
    IN  IF dots = {} THEN n ELSE SubSeq(n, 1, Greatest(dots) - 1)

\* C8: the PDF goes to pdf/<DerivedName>.pdf, DerivedName being the second
\* comma-delimited segment of a name with at least two commas and the name
\* without its extension otherwise.
C8_DerivedName ==
    pc = "named" =>
        written = {S_pdf \o <<"/">>
                     \o (IF Cardinality(Commas(filename)) >= 2
                         THEN SecondSegment(filename)
                         ELSE WithoutExtension(filename))
                     \o Ext_pdf}

\* a name with two commas and a non-empty second segment has been derived
C8_Witness ==
    /\ pc = "named"
    /\ Cardinality(Commas(filename)) >= 2
    /\ pdf_name # <<>>

\* the last component of a path
Basename(p) == SubSeq(p, RFind(p, "/") + 1, Len(p))

\* the inputs the specification excludes
ExcludedInput(p) ==
    \/ EndsWith(p, Ext_py) \/ EndsWith(p, Ext_pdf) \/ EndsWith(p, Ext_swp)
    \/ StartsWith(Basename(p), <<".">>)
    \/ p = S_tempfile

\* C9: the pipeline is never run on an excluded input (extension .py, .pdf or
\* .swp, a file name starting with a dot, tempfile, not a regular file), and a
\* regular file that is not excluded is not rejected.
C9_OnlyEligibleInputs ==
    /\ \A i \in DOMAIN handed :
           IsFileIn(orig, handed[i]) /\ ~ ExcludedInput(handed[i])
    /\ (SingleRun /\ pc = "done" /\ handed = <<>>) =>
           (~ IsFileIn(fs, argv[2]) \/ ExcludedInput(argv[2]))

\* C10: batch mode ends without an unhandled error, whatever the directory holds.
C10_BatchEndsWithoutError ==
    BatchRun => pc # "crashed"

\* the messages printed for the call that has just returned
LastTwo == SubSeq(out, Len(out) - 1, Len(out))

\* C11: when a tool exits non-zero the diagnostic names the tool, and it
\* carries the text the tool left on its standard error whenever that text is
\* not empty; the note that the standard error was empty is printed only when
\* it was empty.
C11_StderrReported ==
    (pc = "return" /\ Last(results).outcome = "tool failed") =>
        LET captured == Last(stages).stderr
        IN  /\ LastTwo[1].msg = "Error processing"
            /\ LastTwo[1].cmd = Last(stages).tool
            /\ captured # <<>> =>
                   /\ LastTwo[2].msg = "Standard Error:"
                   /\ LastTwo[2].text = Decode(captured)
            /\ LastTwo[2].msg = "Standard error was empty." => captured = <<>>

\* C12: when the script is run a second time in the same directory in batch
\* mode, with the tools behaving on each input as they did the first time, the
\* second run ends with the same set of PDF files under pdf/ as the first run.
C12_SecondRunSamePdfs ==
    (BatchRun /\ run = 2 /\ Ended) => PdfFiles(fs) = firstPdfs

\* C13: the flag -uselibname is removed from the argument list wherever it
\* stands, so that it is never taken for the positional file name, and the mode
\* and the files converted are those of the argument list without it.
C13_FlagNeverPositional ==
    pc # "start" =>
        /\ \A i \in DOMAIN argv : argv[i] # Flag
        /\ Flag \notin Handed
        /\ \A i \in DOMAIN out : out[i].file # Flag

\* C14: in single-file mode an argument that is not an existing regular file
\* gets the message "not found" and an existing excluded file the message
\* "excluded"; in both cases process_schematic is not called and the directory
\* stays as it was.
C14_SingleModeRejects ==
    (SingleRun /\ pc # "main") =>
        LET arg == argv[2]
            rejected(msg) == /\ out = <<Msg(msg, arg, "", <<>>)>>
                             /\ handed = <<>>
                             /\ fs = orig
        IN  /\ ~ IsFileIn(orig, arg) => rejected("Error: File not found.")
            /\ (IsFileIn(orig, arg) /\ ExcludedInput(arg)) =>
                   rejected("Error: File is excluded.")

\* C15: "Required tool not found" is the outcome of a call exactly when the
\* binary of the stage it had reached is not installed: not when a tool ran
\* and exited non-zero, and not when a data file is missing or has vanished.
C15_ToolNotFoundOnlyForTools ==
    pc = "return" =>
        (Last(results).outcome = "tool missing"
            <=> (stages # <<>> /\ Last(stages).status = "missing"))

\* what tools that exit with zero make of the content c, one after the other
Through(c, tools) == FileEntry(c.origin, c.stage \o tools, TRUE)

C17_NoWorkingFileAsInput ==
    (BatchRun /\ pc = "copy" /\ filename \in WorkFiles) =>
        EntryOf(fs, filename).stage = <<>>

====
